---- MODULE Spec2Model ----
(***************************************************************************)
(* Model of the commune pipelines of genie_logiciel: key normalisation,    *)
(* conformity encoding, per-commune aggregation and the left joins onto    *)
(* the geometry table (final.py, population_merge.py, eau_merge.py,        *)
(* eau.py, am.py).                                                          *)
(*                                                                         *)
(* Text cells are sequences of one-character strings; the empty sequence   *)
(* is the missing text cell (read_csv reads an empty cell as missing).     *)
(* Numbers are exact fractions [num, den]; den = 0 is the missing number   *)
(* (NaN).  Floating-point rounding is not modelled.                        *)
(***************************************************************************)
EXTENDS Integers, Sequences, FiniteSets, TLC

\* ------------------------------------------------------------------ bounds
MaxInt == 12         \* raw integer identifiers range over -MaxInt..MaxInt
MaxStrLen == 3       \* raw string identifiers built from fragments, up to this many
MaxNormCalls == 2    \* how many times one key is passed through the normaliser
MaxRows == 2
\* rows of the source that varies in a run on files as written
MaxFileRows == 3         \* rows of the water, rent and population sources of one run, together

\* zfill(5): the width every loader passes
Width == 5

\* ------------------------------------------------------------------ text
Digits == <<"0", "1", "2", "3", "4", "5", "6", "7", "8", "9">>

RECURSIVE NatStr(_)
\* str(n) for n >= 0, most significant digit first
NatStr(n) == IF n < 10 THEN <<Digits[n + 1]>>
             ELSE NatStr(n \div 10) \o <<Digits[(n % 10) + 1]>>

RECURSIVE Zeros(_)
Zeros(k) == IF k <= 0 THEN <<>> ELSE <<"0">> \o Zeros(k - 1)

Tail1(s) == SubSeq(s, 2, Len(s))

\* raw identifiers as the readers hand them over
IntId(n) == [kind |-> "int", n |-> n, frac |-> 0, s |-> <<>>]
FloatId(n, f) == [kind |-> "float", n |-> n, frac |-> f, s |-> <<>>]
StrId(s) == [kind |-> "str", n |-> 0, frac |-> 0, s |-> s]
\* the missing cell (an empty cell of the file)
NanId == [kind |-> "nan", n |-> 0, frac |-> 0, s |-> <<>>]

\* Series.astype(str): str(x) of each cell
astype_str(x) ==
    CASE x.kind = "int" -> (IF x.n < 0 THEN <<"-">> \o NatStr(-x.n) ELSE NatStr(x.n))
      [] x.kind = "float" ->
            (IF x.n < 0 THEN <<"-">> \o NatStr(-x.n) ELSE NatStr(x.n))
                \o <<".">> \o NatStr(x.frac)
      [] x.kind = "nan" -> <<"n", "a", "n">>
      [] OTHER -> x.s

\* a plausible slip: pad, then keep the last `width` characters
zfill_truncating(s, width) ==
    LET p == Zeros(width - Len(s)) \o s
    IN  SubSeq(p, Len(p) - width + 1, Len(p))

\* a plausible slip: one "0" is prepended instead of padding up to the width
zfill_once(s, width) == IF Len(s) < width THEN <<"0">> \o s ELSE s

\* Series.str.zfill(width): each cell's str.zfill(width); a leading sign stays first
zfill(s, width) ==
    IF Len(s) >= width THEN s
    ELSE IF Len(s) > 0 /\ Head(s) \in {"+", "-"}
         THEN <<Head(s)>> \o Zeros(width - Len(s)) \o Tail1(s)
         ELSE Zeros(width - Len(s)) \o s

\* the loaders' key normalisation: .astype(str).str.zfill(5)
normalize(x) == zfill(astype_str(x), Width)


\* ------------------------------------------------------------------ numbers
\* the missing number
NaN == [num |-> 0, den |-> 0]
Num(n) == [num |-> n, den |-> 1]
isna(v) == v.den = 0

RECURSIVE Gcd(_, _)
Gcd(a, b) == IF b = 0 THEN a ELSE Gcd(b, a % b)

\* n / d in lowest terms, n >= 0 and d > 0
Frac(n, d) == LET g == Gcd(n, d) IN [num |-> n \div g, den |-> d \div g]

Add(a, b) == Frac(a.num * b.den + b.num * a.den, a.den * b.den)

RECURSIVE SumPresent(_)
SumPresent(vs) ==
    IF vs = <<>> THEN Num(0)
    ELSE IF isna(Head(vs)) THEN SumPresent(Tail(vs))
         ELSE Add(Head(vs), SumPresent(Tail(vs)))

RECURSIVE CountPresent(_)
CountPresent(vs) ==
    IF vs = <<>> THEN 0
    ELSE (IF isna(Head(vs)) THEN 0 ELSE 1) + CountPresent(Tail(vs))

\* a plausible slip: missing values are counted as 0 (fillna(0) before the mean)
mean_fillna0(vs) ==
    LET s == SumPresent(vs) IN Frac(s.num, s.den * Len(vs))

\* GroupBy.mean of one group: the mean of the present values, missing when there is none
mean(vs) ==
    LET n == CountPresent(vs)
        s == SumPresent(vs)
    IN  IF n = 0 THEN NaN ELSE Frac(s.num, s.den * n)

\* ------------------------------------------------------------------ frames
\* the missing text cell
NA == <<>>

TextCols == {"inseecommune", "INSEE_C", "codgeo",
             "plvconformitebacterio", "plvconformitechimique"}

DigitVal(c) == CHOOSE d \in 0..9 : Digits[d + 1] = c

RECURSIVE ParseNat(_)
ParseNat(s) == IF s = <<>> THEN 0
               ELSE 10 * ParseNat(SubSeq(s, 1, Len(s) - 1)) + DigitVal(s[Len(s)])

IsDigits(s) == s # <<>> /\ \A i \in 1..Len(s) : \E d \in 1..10 : Digits[d] = s[i]

\* The cells of a key column are text as it stands in the file, or numbers when the
\* reader inferred a numeric column: an int64 cell is "#" and its decimal digits, a
\* float64 cell (a whole number, the column had missing cells) "~" and its digits.
IntCell(n) == <<"#">> \o NatStr(n)
FloatCell(n) == <<"~">> \o NatStr(n)
IsIntCell(x) == x # <<>> /\ Head(x) = "#"
IsFloatCell(x) == x # <<>> /\ Head(x) = "~"
IsNumCell(x) == IsIntCell(x) \/ IsFloatCell(x)
NumOf(x) == ParseNat(Tail(x))

\* a key cell as the identifier .astype(str) is applied to
CellId(x) == IF x = NA THEN NanId
             ELSE IF IsIntCell(x) THEN IntId(NumOf(x))
             ELSE IF IsFloatCell(x) THEN FloatId(NumOf(x), 0)
             ELSE StrId(x)

\* the missing value of a column
NAOf(c) == IF c \in TextCols THEN NA ELSE NaN

\* a field that holds None
None == [df |-> FALSE, cols |-> {}, rows |-> <<>>]

\* a table: its columns and its rows, each row a function of the columns
DataFrame(cols, rows) == [df |-> TRUE, cols |-> cols, rows |-> rows]

RECURSIVE Flatten(_)
Flatten(ss) == IF ss = <<>> THEN <<>> ELSE Head(ss) \o Flatten(Tail(ss))

\* the dtype of key column c of a table: int64, float64, or object (text, or mixed)
KeyDtype(df, c) ==
    IF df.rows = <<>> THEN "object"
    ELSE IF \A i \in 1..Len(df.rows) : IsIntCell(df.rows[i][c]) THEN "int64"
    ELSE IF \A i \in 1..Len(df.rows) : df.rows[i][c] = NA \/ IsNumCell(df.rows[i][c])
         THEN "float64"
    ELSE "object"

\* pd.read_csv on the text of a file: key column c of digits only is read as integers
\* (leading zeros are lost), of digits and empty cells as floats, anything else as text
read_csv(file, c) ==
    LET Cell(i) == file.rows[i][c]
        n == Len(file.rows)
    IN  IF ~file.df \/ c \notin file.cols \/ n = 0 THEN file
        ELSE IF \A i \in 1..n : IsDigits(Cell(i))
             THEN DataFrame(file.cols,
                            [i \in 1..n |-> [file.rows[i] EXCEPT ![c] = IntCell(ParseNat(@))]])
        ELSE IF \A i \in 1..n : Cell(i) = NA \/ IsDigits(Cell(i))
             THEN DataFrame(file.cols,
                            [i \in 1..n |-> [file.rows[i] EXCEPT
                                ![c] = IF @ = NA THEN NA ELSE FloatCell(ParseNat(@))]])
        ELSE file

\* pd.concat(frames, ignore_index=True): the rows of the frames in order, a column a
\* frame lacks missing in its rows, an int64 key column joined to a float64 one float64
concat(frames) ==
    LET cols == UNION {frames[i].cols : i \in 1..Len(frames)}
        rows == Flatten([i \in 1..Len(frames) |-> frames[i].rows])
        Has(i, c) == c \in DOMAIN rows[i]
        Floats(c) ==
            /\ c \in TextCols
            /\ \A i \in 1..Len(rows) : Has(i, c) => rows[i][c] = NA \/ IsNumCell(rows[i][c])
            /\ \E i \in 1..Len(rows) : ~Has(i, c) \/ ~IsIntCell(rows[i][c])
    IN  DataFrame(cols,
                  [i \in 1..Len(rows) |->
                      [c \in cols |->
                          IF ~Has(i, c) THEN NAOf(c)
                          ELSE IF Floats(c) /\ IsIntCell(rows[i][c])
                               THEN FloatCell(NumOf(rows[i][c]))
                          ELSE rows[i][c]]])

\* df[col] = vals: the cell of column col of row i becomes vals[i]
Assign(df, col, vals) ==
    DataFrame(df.cols \cup {col},
              [i \in 1..Len(df.rows) |->
                  [c \in df.cols \cup {col} |->
                      IF c = col THEN vals[i] ELSE df.rows[i][c]]])

\* df[col]: the cells of a column, in row order
Column(df, col) == [i \in 1..Len(df.rows) |-> df.rows[i][col]]

\* a plausible slip: dropna(how="all"), only the rows without any value are dropped
dropna_all(df) ==
    LET SomePresent(r) == \E c \in df.cols : ~isna(r[c])
    IN  DataFrame(df.cols, SelectSeq(df.rows, SomePresent))

\* df.dropna() of a table of numbers: the rows without a missing cell, in order
dropna(df) ==
    LET Complete(r) == \A c \in df.cols : ~isna(r[c])
    IN  DataFrame(df.cols, SelectSeq(df.rows, Complete))

\* df.rename(columns={old: new})
Rename(df, old, new) ==
    DataFrame((df.cols \ {old}) \cup {new},
              [i \in 1..Len(df.rows) |->
                  [c \in (df.cols \ {old}) \cup {new} |->
                      IF c = new THEN df.rows[i][old] ELSE df.rows[i][c]]])

\* df[[...cols]]
Select(df, cols) ==
    DataFrame(cols, [i \in 1..Len(df.rows) |-> [c \in cols |-> df.rows[i][c]]])

\* df[col] = df[col].astype(str).str.zfill(5)
NormalizeColumn(df, col) ==
    Assign(df, col, [i \in 1..Len(df.rows) |-> normalize(CellId(df.rows[i][col]))])

\* character order of the text cells
Chars == <<"+", "-", ".", "0", "1", "2", "3", "4", "5", "6", "7", "8", "9", "A", "a", "n">>
Ord(c) == CHOOSE i \in 1..Len(Chars) : Chars[i] = c

RECURSIVE LexLess(_, _)
LexLess(a, b) ==
    IF a = <<>> THEN b # <<>>
    ELSE IF b = <<>> THEN FALSE
    ELSE IF Head(a) = Head(b) THEN LexLess(Tail(a), Tail(b))
    ELSE Ord(Head(a)) < Ord(Head(b))

\* the order groupby gives its keys: numbers by value and before text, text by character
KeyLess(a, b) ==
    IF IsNumCell(a) /\ IsNumCell(b) THEN NumOf(a) < NumOf(b)
    ELSE IF IsNumCell(a) THEN TRUE
    ELSE IF IsNumCell(b) THEN FALSE
    ELSE LexLess(a, b)

RECURSIVE SortKeys(_)
SortKeys(S) ==
    IF S = {} THEN <<>>
    ELSE LET m == CHOOSE x \in S : \A y \in S \ {x} : KeyLess(x, y)
         IN  <<m>> \o SortKeys(S \ {m})

\* the cells of column c in the rows whose `by` cell is k, in row order
GroupValues(df, by, k, c) ==
    LET InGroup(r) == r[by] = k
        g == SelectSeq(df.rows, InGroup)
    IN  [i \in 1..Len(g) |-> g[i][c]]

\* df.groupby(by)[cols].mean().reset_index(): one row per key as it stands in the
\* column, keys sorted, missing keys dropped
groupby_mean(df, by, cols) ==
    LET ks == SortKeys({df.rows[i][by] : i \in 1..Len(df.rows)} \ {NA})
    IN  DataFrame({by} \cup cols,
                  [i \in 1..Len(ks) |->
                      [c \in {by} \cup cols |->
                          IF c = by THEN ks[i]
                          ELSE mean(GroupValues(df, by, ks[i], c))]])

\* a plausible slip: how="inner", the rows without a match are dropped
merge_inner(left, right, left_on, right_on) ==
    LET Joined(l) ==
            LET Match(r) == r[right_on] = l[left_on]
                m == SelectSeq(right.rows, Match)
            IN  [j \in 1..Len(m) |-> l @@ m[j]]
    IN  DataFrame(left.cols \cup right.cols,
                  Flatten([i \in 1..Len(left.rows) |-> Joined(left.rows[i])]))

\* a plausible slip: how="right", one row per row of the right table
merge_right(left, right, left_on, right_on) ==
    LET Joined(r) ==
            LET Match(l) == r[right_on] = l[left_on]
                m == SelectSeq(left.rows, Match)
            IN  IF m = <<>> THEN <<r @@ [c \in left.cols |-> NAOf(c)]>>
                ELSE [j \in 1..Len(m) |-> m[j] @@ r]
    IN  DataFrame(left.cols \cup right.cols,
                  Flatten([i \in 1..Len(right.rows) |-> Joined(right.rows[i])]))

\* left.merge(right, left_on=..., right_on=..., how="left"): the left rows in order,
\* each once per matching right row, or once with the right columns missing
merge(left, right, left_on, right_on) ==
    LET Joined(l) ==
            LET Match(r) == r[right_on] = l[left_on]
                m == SelectSeq(right.rows, Match)
            IN  IF m = <<>> THEN <<l @@ [c \in right.cols |-> NAOf(c)]>>
                ELSE [j \in 1..Len(m) |-> l @@ m[j]]
    IN  DataFrame(left.cols \cup right.cols,
                  Flatten([i \in 1..Len(left.rows) |-> Joined(left.rows[i])]))

\* merge refuses (ValueError) to join a key column of text with a numeric one
merge_raises(left, right, left_on, right_on) ==
    LET Text(df, c) == \A i \in 1..Len(df.rows) : ~IsNumCell(df.rows[i][c])
        Numeric(df, c) == KeyDtype(df, c) \in {"int64", "float64"}
    IN  \/ Text(left, left_on) /\ Numeric(right, right_on)
        \/ Numeric(left, left_on) /\ Text(right, right_on)

\* a cell of a value column that does not spell a number
Malformed == [num |-> 0, den |-> -1]

\* read_csv leaves a value column with such a cell a column of text (dtype object)
IsObject(df, c) == \E i \in 1..Len(df.rows) : df.rows[i][c] = Malformed

\* ------------------------------------------------------------------ cleaning
\* a plausible slip: whatever is not "N" counts as compliant
encode_not_N(x) == IF x # <<"N">> THEN 1 ELSE 0

\* lambda x: 1 if x == "C" else 0
encode(x) == IF x = <<"C">> THEN 1 ELSE 0

\* pd.to_numeric(cell, errors="coerce"): the number a text cell spells, else missing
to_numeric(x) == IF IsDigits(x) THEN Num(ParseNat(x)) ELSE NaN

\* final.py / eau_merge.py / population_merge.py clean_water_data
clean_water(df) ==
    LET b == Column(df, "plvconformitebacterio")
        c == Column(df, "plvconformitechimique")
    IN  Assign(Assign(NormalizeColumn(df, "inseecommune"),
                      "bacterio_conformity", [i \in 1..Len(b) |-> Num(encode(b[i]))]),
               "chemical_conformity", [i \in 1..Len(c) |-> Num(encode(c[i]))])

\* eau.py clean_data
clean_numeric(df) ==
    LET b == Column(df, "plvconformitebacterio")
        c == Column(df, "plvconformitechimique")
    IN  Assign(Assign(NormalizeColumn(df, "inseecommune"),
                      "plvconformitebacterio", [i \in 1..Len(b) |-> to_numeric(b[i])]),
               "plvconformitechimique", [i \in 1..Len(c) |-> to_numeric(c[i])])

\* eau.py aggregate_by_commune
aggregate_by_commune(df) ==
    Rename(Rename(groupby_mean(df, "inseecommune",
                               {"plvconformitebacterio", "plvconformitechimique"}),
                  "plvconformitebacterio", "bacterio_conformity"),
           "plvconformitechimique", "chemical_conformity")

\* merge_data, "Eau": the per-commune means of the two indicators
water_agg(df) ==
    groupby_mean(df, "inseecommune", {"bacterio_conformity", "chemical_conformity"})

\* a plausible slip: one mean per file, then the mean of the files' means
rent_mean_of_means(files) ==
    Rename(groupby_mean(concat([i \in 1..Len(files) |->
                                   groupby_mean(files[i], "INSEE_C", {"loypredm2"})]),
                        "INSEE_C", {"loypredm2"}),
           "loypredm2", "mean_loypredm2")

\* final.py load_rent_data: the files concatenated, then one mean per INSEE_C
rent_mean(files) ==
    Rename(groupby_mean(concat(files), "INSEE_C", {"loypredm2"}),
           "loypredm2", "mean_loypredm2")

\* eau_merge.py / population_merge.py merge_data, "Loyers"
rent_agg(df) == groupby_mean(df, "INSEE_C", {"loypredm2"})

\* ------------------------------------------------------------------ joins
merge_water(geo, agg) == merge(geo, agg, "codgeo", "inseecommune")

merge_rent(geo, agg) == merge(geo, agg, "codgeo", "INSEE_C")

\* the population join, skipped while pop_data is None
merge_pop(geo, pop) ==
    IF pop.df THEN merge(geo, Select(pop, {"codgeo", "p21_pop"}), "codgeo", "codgeo")
    ELSE geo

\* ------------------------------------------------------------------ state
VARIABLES
    raw,          \* normaliser: the identifier as read from the source
    key,          \* normaliser: the key cell, before and after .astype(str).str.zfill(5)
    norm_calls,   \* normaliser: how many times the key was normalised
    variant,      \* which module runs: final, population_merge, eau_merge, eau, am, mysql
    script,       \* the calls the caller makes, in order
    pc,           \* how many calls of the script have completed
    error,        \* the exception that ended the run: the call that raised it and its type
    water_files,  \* the water files as read_csv returns them
    geojson,      \* the commune file as gpd.read_file returns it
    rent_files,   \* the rent files as read_csv returns them
    pop_file,     \* the population sheet as read_excel returns it, None without a path
    geo_data,     \* self.geo_data (eau.py: communes_geo)
    water_data,   \* self.water_data (eau.py: self.data)
    rent_data,    \* self.rent_data
    pop_data,     \* self.pop_data
    merged_data,  \* am.py self.merged_data, eau.py geo_merged
    analysis_data,\* the rows the correlation matrix is computed from
    db            \* mysql_database.py: the tables of the genie_logiciel database

norm_vars == <<raw, key, norm_calls>>

input_vars == <<variant, script, water_files, geojson, rent_files, pop_file>>

db_vars == <<db>>

vars == <<raw, key, norm_calls, variant, script, pc, error, water_files, geojson, rent_files,
          pop_file, geo_data, water_data, rent_data, pop_data, merged_data, analysis_data, db>>

\* ------------------------------------------------------------------ inputs
\* commune 1 written without and with its leading zeros, and commune 2
Keys == {<<"1">>, <<"0", "0", "0", "0", "1">>, <<"0", "0", "0", "0", "2">>}

\* (plvconformitebacterio, plvconformitechimique) of a water record
CodePairs == {<<(<<"C">>), (<<"C">>)>>, <<(<<"N">>), NA>>,
              <<NA, (<<"C">>)>>, <<(<<"C">>), (<<"N">>)>>}

WaterRowTypes ==
    {[inseecommune |-> k, plvconformitebacterio |-> p[1], plvconformitechimique |-> p[2]] :
        k \in Keys, p \in CodePairs}

RentRowTypes == {[INSEE_C |-> k, loypredm2 |-> v] : k \in Keys, v \in {Num(10), Num(12), NaN}}

PopRowTypes == {[codgeo |-> k, p21_pop |-> Num(100)] : k \in Keys}

\* the codgeo property of the communes of the GeoJSON file, in file order
GeoKeySeqs == {<<(<<"0", "0", "0", "0", "1">>)>>,
               <<(<<"1">>)>>,
               <<(<<"0", "0", "0", "0", "1">>), (<<"0", "0", "0", "0", "2">>)>>,
               <<(<<"1">>), (<<"0", "0", "0", "0", "2">>)>>}

GeoFile(ks) ==
    DataFrame({"codgeo", "geometry"},
              [i \in 1..Len(ks) |-> [codgeo |-> ks[i], geometry |-> Num(i)]])

WaterFile(rows) ==
    DataFrame({"inseecommune", "plvconformitebacterio", "plvconformitechimique"}, rows)

RentFile(rows) == DataFrame({"INSEE_C", "loypredm2"}, rows)

PopFile(rows) == DataFrame({"codgeo", "p21_pop"}, rows)

RECURSIVE SetToSeq(_)
SetToSeq(S) == IF S = {} THEN <<>>
               ELSE LET x == CHOOSE x \in S : TRUE IN <<x>> \o SetToSeq(S \ {x})

\* the files of n rows over the row types; the order of the rows of a file changes no
\* result (groupby sorts its keys), so each collection of rows is taken in one order
RowSeqs(types, n) ==
    LET order == SetToSeq(types)
        m == Len(order)
    IN  {[i \in 1..n |-> order[f[i]]] :
            f \in {g \in [1..n -> 1..m] : \A i \in 1..(n - 1) : g[i] <= g[i + 1]}}

\* the pipeline classes.  "population_merge" is the first class of population_merge.py,
\* whose constructor is handed the rent table; its second class is final.py's, call for call.
Variants == {"final", "population_merge", "eau_merge", "eau", "am"}

UsesWater(v) == v \in {"final", "population_merge", "eau_merge", "eau"}
UsesRent(v) == v \in {"final", "population_merge", "eau_merge", "am"}
UsesPop(v) == v \in {"final", "population_merge"}
\* the classes whose constructor is handed the rent table
RentGiven(v) == v \in {"population_merge", "eau_merge"}

\* the calls of each module's main script, in order
Script(v) ==
    CASE v = "final" -> <<"load_water_data", "clean_water_data", "load_geo_data",
                          "load_rent_data", "load_population_data", "merge_data",
                          "plot_correlation_heatmap">>
      [] v = "population_merge" -> <<"load_water_data", "clean_water_data", "load_geo_data",
                                     "load_population_data", "merge_data",
                                     "analyze_correlation">>
      [] v = "eau_merge" -> <<"load_water_data", "clean_water_data", "load_geo_data",
                              "merge_data", "analyze_correlation">>
      [] v = "eau" -> <<"load_files", "clean_data", "read_geojson", "merge_with_geo_data">>
      [] v = "am" -> <<"preprocess_data">>
      [] v = "mysql" -> <<"create_schema", "populate_commune_stub", "mysql_load_rent_data",
                          "mysql_load_water_data", "preprocess_and_merge_data">>
      [] OTHER -> <<>>

\* no exception was raised
NoError == [call |-> "", type |-> ""]

\* exception `type` left call h
Raised(h, type) == [call |-> h, type |-> type]

\* mysql_database.py: the server before create_schema: no table, no constraint, no row.
\* `tables` are the tables that exist, `fk` the dependent tables that carry their
\* FOREIGN KEY ... REFERENCES commune (codgeo), `commune` the codes of the registry.
\* `written` are the tables the run has filled.
NoStore == [tables |-> {}, fk |-> {}, written |-> {}, commune |-> {},
            water_data |-> None, rent_data |-> None, merged_data |-> None]

NormIdle ==
    /\ raw = StrId(<<>>)
    /\ key = StrId(<<>>)
    /\ norm_calls = 0

Init ==
    /\ NormIdle
    /\ variant \in Variants
    /\ script = Script(variant)
    /\ pc = 0
    /\ error = NoError
    /\ analysis_data = None
    /\ db = NoStore
    /\ geojson \in {GeoFile(ks) : ks \in GeoKeySeqs}
    /\ \E nw \in 0..MaxRows, nr \in 0..MaxRows, np \in 0..MaxRows :
        /\ nw + nr + np <= MaxRows
        /\ nw > 0 => UsesWater(variant)
        /\ nr > 0 => UsesRent(variant)
        /\ np > 0 => UsesPop(variant)
        /\ water_files \in IF UsesWater(variant)
                           THEN {<<WaterFile(w)>> : w \in RowSeqs(WaterRowTypes, nw)}
                           ELSE {<<>>}
        /\ rent_files \in IF UsesRent(variant)
                          THEN {<<RentFile(r)>> : r \in RowSeqs(RentRowTypes, nr)}
                          ELSE {<<>>}
        /\ pop_file \in IF UsesPop(variant)
                        THEN {PopFile(p) : p \in RowSeqs(PopRowTypes, np)}
                             \cup (IF np = 0 THEN {None} ELSE {})
                        ELSE {None}
    /\ geo_data = None
    /\ water_data = None
    /\ rent_data = IF RentGiven(variant) THEN rent_files[1] ELSE None
    /\ pop_data = None
    /\ merged_data = None

\* ------------------------------------------------------------------ calls
\* h is the caller's next call; an exception ends the run
Callable(h) == error = NoError /\ pc < Len(script) /\ script[pc + 1] = h

Done == pc = Len(script)

\* call h of the script has returned
HasRun(h) == \E i \in 1..pc : script[i] = h

load_water_data ==
    /\ Callable("load_water_data")
    /\ water_data' = concat(water_files)
    /\ pc' = pc + 1
    /\ UNCHANGED <<norm_vars, input_vars, db_vars, error, analysis_data, geo_data, rent_data, pop_data, merged_data>>

\* the call returned, or raised exception e and ended the run
Outcome(h, e) ==
    /\ error' = IF e = "" THEN NoError ELSE Raised(h, e)
    /\ pc' = IF e = "" THEN pc + 1 ELSE pc

\* clean_water_data works on self.water_data in place, column by column: the exception
\* it raises, and the table a raise leaves behind
CleanWaterError ==
    IF ~water_data.df THEN "TypeError"
    ELSE IF {"inseecommune", "plvconformitebacterio", "plvconformitechimique"}
                \subseteq water_data.cols THEN ""
    ELSE "KeyError"

CleanWaterLeaves ==
    IF ~water_data.df \/ "inseecommune" \notin water_data.cols THEN water_data
    ELSE LET padded == NormalizeColumn(water_data, "inseecommune")
         IN  IF "plvconformitebacterio" \notin water_data.cols THEN padded
             ELSE LET b == Column(water_data, "plvconformitebacterio")
                  IN  Assign(padded, "bacterio_conformity",
                             [i \in 1..Len(b) |-> Num(encode(b[i]))])

clean_water_data ==
    /\ Callable("clean_water_data")
    /\ water_data' = IF CleanWaterError = "" THEN clean_water(water_data)
                     ELSE CleanWaterLeaves
    /\ Outcome("clean_water_data", CleanWaterError)
    /\ UNCHANGED <<norm_vars, input_vars, db_vars, analysis_data, geo_data, rent_data,
                   pop_data, merged_data>>

\* self.geo_data is assigned the file as read, then its codgeo column is padded
load_geo_data ==
    /\ Callable("load_geo_data")
    /\ geo_data' = IF "codgeo" \in geojson.cols THEN NormalizeColumn(geojson, "codgeo")
                   ELSE geojson
    /\ Outcome("load_geo_data", IF "codgeo" \in geojson.cols THEN "" ELSE "KeyError")
    /\ UNCHANGED <<norm_vars, input_vars, db_vars, analysis_data, water_data, rent_data,
                   pop_data, merged_data>>

\* groupby(by)[col].mean() of a rent table: KeyError without one of the columns,
\* TypeError when col is a column of text
RentMeanError(df) ==
    IF ~({"INSEE_C", "loypredm2"} \subseteq df.cols) THEN "KeyError"
    ELSE IF IsObject(df, "loypredm2") THEN "TypeError"
    ELSE ""

\* self.rent_data is assigned the aggregate, once it is computed
load_rent_data ==
    /\ Callable("load_rent_data")
    /\ rent_data' = IF RentMeanError(concat(rent_files)) = "" THEN rent_mean(rent_files)
                    ELSE rent_data
    /\ Outcome("load_rent_data", RentMeanError(concat(rent_files)))
    /\ UNCHANGED <<norm_vars, input_vars, db_vars, analysis_data, geo_data, water_data,
                   pop_data, merged_data>>

\* returns at once without a pop_file; self.pop_data is assigned the sheet as read,
\* then its codgeo column is padded
load_population_data ==
    /\ Callable("load_population_data")
    /\ pop_data' = IF ~pop_file.df THEN pop_data
                   ELSE IF "codgeo" \in pop_file.cols THEN NormalizeColumn(pop_file, "codgeo")
                   ELSE pop_file
    /\ Outcome("load_population_data",
               IF pop_file.df /\ "codgeo" \notin pop_file.cols THEN "KeyError" ELSE "")
    /\ UNCHANGED <<norm_vars, input_vars, db_vars, analysis_data, geo_data, water_data,
                   rent_data, merged_data>>

\* the table the "Loyers" join of merge_data takes
RentTable == IF variant = "final" THEN rent_data ELSE rent_agg(rent_data)

AfterWater(geo) == merge_water(geo, water_agg(water_data))
AfterRent(geo) == merge_rent(geo, RentTable)
AfterPop(geo) == IF variant = "eau_merge" THEN geo ELSE merge_pop(geo, pop_data)

\* merge_data assigns self.geo_data after each join; the exception each of its three
\* blocks raises (geo is the table the block starts from)
WaterJoinError ==
    IF ~water_data.df THEN "AttributeError"
    ELSE IF ~({"inseecommune", "bacterio_conformity", "chemical_conformity"}
                 \subseteq water_data.cols) THEN "KeyError"
    ELSE IF ~geo_data.df THEN "AttributeError"
    ELSE IF "codgeo" \notin geo_data.cols THEN "KeyError"
    ELSE IF merge_raises(geo_data, water_agg(water_data), "codgeo", "inseecommune")
         THEN "ValueError"
    ELSE ""

RentJoinError(geo) ==
    IF ~rent_data.df THEN (IF variant = "final" THEN "TypeError" ELSE "AttributeError")
    ELSE IF variant # "final" /\ RentMeanError(rent_data) # "" THEN RentMeanError(rent_data)
    ELSE IF merge_raises(geo, RentTable, "codgeo", "INSEE_C") THEN "ValueError"
    ELSE ""

PopJoinError ==
    IF variant # "eau_merge" /\ pop_data.df /\ ~({"codgeo", "p21_pop"} \subseteq pop_data.cols)
    THEN "KeyError" ELSE ""

MergeDataError ==
    IF WaterJoinError # "" THEN WaterJoinError
    ELSE IF RentJoinError(AfterWater(geo_data)) # "" THEN RentJoinError(AfterWater(geo_data))
    ELSE PopJoinError

merge_data ==
    /\ Callable("merge_data")
    /\ geo_data' = IF WaterJoinError # "" THEN geo_data
                   ELSE IF RentJoinError(AfterWater(geo_data)) # "" THEN AfterWater(geo_data)
                   ELSE IF PopJoinError # "" THEN AfterRent(AfterWater(geo_data))
                   ELSE AfterPop(AfterRent(AfterWater(geo_data)))
    /\ Outcome("merge_data", MergeDataError)
    /\ UNCHANGED <<norm_vars, input_vars, db_vars, analysis_data, water_data, rent_data,
                   pop_data, merged_data>>

\* the columns the correlation analysis selects
CorrelationColumns ==
    {"bacterio_conformity", "chemical_conformity",
     IF variant = "final" THEN "mean_loypredm2" ELSE "loypredm2"}
    \cup (IF variant # "eau_merge" /\ pop_data.df /\ "p21_pop" \in geo_data.cols
          THEN {"p21_pop"} ELSE {})

\* final.py: analysis_data = self.geo_data[columns].dropna(), the table .corr() is given
plot_correlation_heatmap ==
    /\ Callable("plot_correlation_heatmap")
    /\ analysis_data' = dropna(Select(geo_data, CorrelationColumns))
    /\ pc' = pc + 1
    /\ UNCHANGED <<norm_vars, input_vars, db_vars, error, geo_data, water_data, rent_data,
                   pop_data, merged_data>>

\* eau_merge.py, population_merge.py
analyze_correlation ==
    /\ Callable("analyze_correlation")
    /\ analysis_data' = dropna(Select(geo_data, CorrelationColumns))
    /\ pc' = pc + 1
    /\ UNCHANGED <<norm_vars, input_vars, db_vars, error, geo_data, water_data, rent_data,
                   pop_data, merged_data>>

\* eau.py
load_files ==
    /\ Callable("load_files")
    /\ water_data' = concat(water_files)
    /\ pc' = pc + 1
    /\ UNCHANGED <<norm_vars, input_vars, db_vars, error, analysis_data, geo_data, rent_data, pop_data, merged_data>>

clean_data ==
    /\ Callable("clean_data")
    /\ water_data' = clean_numeric(water_data)
    /\ pc' = pc + 1
    /\ UNCHANGED <<norm_vars, input_vars, db_vars, error, analysis_data, geo_data, rent_data, pop_data, merged_data>>

read_geojson ==
    /\ Callable("read_geojson")
    /\ geo_data' = geojson
    /\ pc' = pc + 1
    /\ UNCHANGED <<norm_vars, input_vars, db_vars, error, analysis_data, water_data, rent_data, pop_data, merged_data>>

merge_with_geo_data ==
    /\ Callable("merge_with_geo_data")
    /\ merged_data' = merge(geo_data, aggregate_by_commune(water_data),
                            "codgeo", "inseecommune")
    /\ pc' = pc + 1
    /\ UNCHANGED <<norm_vars, input_vars, db_vars, error, analysis_data, geo_data, water_data, rent_data, pop_data>>

\* am.py
\* load_geo_data pads codgeo before self.geo_data is assigned; self.rent_data is
\* assigned the concatenated files, then padded, then aggregated
PreprocessError ==
    IF "codgeo" \notin geojson.cols THEN "KeyError"
    ELSE IF "INSEE_C" \notin concat(rent_files).cols THEN "KeyError"
    ELSE RentMeanError(concat(rent_files))

preprocess_data ==
    /\ Callable("preprocess_data")
    /\ geo_data' = IF "codgeo" \in geojson.cols THEN NormalizeColumn(geojson, "codgeo")
                   ELSE geo_data
    /\ rent_data' = IF "codgeo" \notin geojson.cols THEN rent_data
                    ELSE IF "INSEE_C" \in concat(rent_files).cols
                         THEN NormalizeColumn(concat(rent_files), "INSEE_C")
                    ELSE concat(rent_files)
    /\ merged_data' = IF PreprocessError = ""
                      THEN merge(geo_data', rent_agg(rent_data'), "codgeo", "INSEE_C")
                      ELSE merged_data
    /\ Outcome("preprocess_data", PreprocessError)
    /\ UNCHANGED <<norm_vars, input_vars, db_vars, analysis_data, water_data, pop_data>>

Next ==
    \/ load_water_data
    \/ clean_water_data
    \/ load_geo_data
    \/ load_rent_data
    \/ load_population_data
    \/ merge_data
    \/ plot_correlation_heatmap
    \/ analyze_correlation
    \/ load_files
    \/ clean_data
    \/ read_geojson
    \/ merge_with_geo_data
    \/ preprocess_data

Spec == Init /\ [][Next]_vars

\* ------------------------------------------------------------------ files as written
\* The runs of final.py and am.py on CSV files given by their text: read_csv infers the
\* type of every key column.  One source varies over the files of up to MaxFileRows rows,
\* with or without each of its required columns; the others are those of the
\* specification's end-to-end scenario.
K1 == <<"1">>
K2 == <<"2">>
K00001 == <<"0", "0", "0", "0", "1">>
K00002 == <<"0", "0", "0", "0", "2">>
K00003 == <<"0", "0", "0", "0", "3">>
K2A004 == <<"2", "A", "0", "0", "4">>

\* df without column c (the file lacks it)
DropColumn(df, c) == Select(df, df.cols \ {c})

ScenarioGeo == GeoFile(<<K00001, K00002, K00003>>)

ScenarioWater ==
    WaterFile(<<[inseecommune |-> K1, plvconformitebacterio |-> <<"C">>,
                 plvconformitechimique |-> <<"C">>],
                [inseecommune |-> K2, plvconformitebacterio |-> <<"N">>,
                 plvconformitechimique |-> <<"N">>]>>)

ScenarioRent ==
    RentFile(<<[INSEE_C |-> K00001, loypredm2 |-> Num(10)],
               [INSEE_C |-> K00001, loypredm2 |-> Num(12)]>>)

WaterTextTypes ==
    {[inseecommune |-> k, plvconformitebacterio |-> c, plvconformitechimique |-> c] :
        k \in {K1, K2, K2A004, NA}, c \in {<<"C">>, <<"N">>}}

RentTextTypes ==
    {[INSEE_C |-> k, loypredm2 |-> v] :
        k \in {K00001, K2A004}, v \in {Num(10), Num(12), NaN, Malformed}}

\* the texts of one file of at most n rows
TextsUpTo(types, n) == UNION {RowSeqs(types, k) : k \in 0..n}

\* a file, whole or lacking one of the columns cs
WithOrWithout(file, cs) == {file} \cup {DropColumn(file, c) : c \in cs}

WaterInputs ==
    {<<read_csv(f, "inseecommune")>> :
        f \in UNION {WithOrWithout(WaterFile(r), {"inseecommune", "plvconformitebacterio",
                                                  "plvconformitechimique"}) :
                        r \in TextsUpTo(WaterTextTypes, MaxFileRows)}}

\* one rent file, or two files (one per housing category) with rows in each
RentInputs ==
    {<<read_csv(f, "INSEE_C")>> :
        f \in UNION {WithOrWithout(RentFile(r), {"INSEE_C", "loypredm2"}) :
                        r \in TextsUpTo(RentTextTypes, MaxFileRows)}}
    \cup UNION {{<<read_csv(RentFile(a), "INSEE_C"), read_csv(RentFile(b), "INSEE_C")>> :
                    a \in RowSeqs(RentTextTypes, n),
                    b \in UNION {RowSeqs(RentTextTypes, m) : m \in 1..(MaxFileRows - n)}} :
                n \in 1..(MaxFileRows - 1)}

GeoInputs == WithOrWithout(ScenarioGeo, {"codgeo"})

PopInputs ==
    {None} \cup WithOrWithout(PopFile(<<[codgeo |-> K1, p21_pop |-> Num(100)]>>),
                              {"codgeo", "p21_pop"})

InitFiles ==
    /\ NormIdle
    /\ variant \in {"final", "am"}
    /\ script = Script(variant)
    /\ pc = 0
    /\ error = NoError
    /\ analysis_data = None
    /\ db = NoStore
    /\ \E varies \in {"water", "rent", "geo", "pop"} :
        /\ water_files \in IF variant = "am" THEN {<<>>}
                           ELSE IF varies = "water" THEN WaterInputs
                           ELSE {<<read_csv(ScenarioWater, "inseecommune")>>}
        /\ rent_files \in IF varies = "rent" THEN RentInputs
                          ELSE {<<read_csv(ScenarioRent, "INSEE_C")>>}
        /\ geojson \in IF varies = "geo" THEN GeoInputs ELSE {ScenarioGeo}
        /\ pop_file \in IF variant = "final" /\ varies = "pop" THEN PopInputs ELSE {None}
    /\ geo_data = None
    /\ water_data = None
    /\ rent_data = None
    /\ pop_data = None
    /\ merged_data = None

NextFiles ==
    \/ load_water_data
    \/ clean_water_data
    \/ load_geo_data
    \/ load_rent_data
    \/ load_population_data
    \/ merge_data
    \/ plot_correlation_heatmap
    \/ preprocess_data

SpecFiles == InitFiles /\ [][NextFiles]_vars

\* ------------------------------------------------------------------ call order
\* final.py driven by a caller that makes the loading calls it likes, each at most once
\* and in the order it likes, and then calls merge_data.
LoadCalls == {"load_water_data", "clean_water_data", "load_geo_data", "load_rent_data",
              "load_population_data"}

RECURSIVE Arrangements(_)
\* the sequences of distinct elements of S
Arrangements(S) ==
    {<<>>} \cup UNION {{<<x>> \o a : a \in Arrangements(S \ {x})} : x \in S}

\* a rent file whose INSEE_C column is read as text: it holds a Corsican code
TextRent ==
    RentFile(<<[INSEE_C |-> K00001, loypredm2 |-> Num(10)],
               [INSEE_C |-> K2A004, loypredm2 |-> Num(12)]>>)

InitOrder ==
    /\ NormIdle
    /\ variant = "final"
    /\ script \in {a \o <<"merge_data">> : a \in Arrangements(LoadCalls)}
    /\ pc = 0
    /\ error = NoError
    /\ analysis_data = None
    /\ db = NoStore
    /\ water_files = <<read_csv(ScenarioWater, "inseecommune")>>
    /\ rent_files \in {<<read_csv(ScenarioRent, "INSEE_C")>>, <<read_csv(TextRent, "INSEE_C")>>}
    /\ geojson = ScenarioGeo
    /\ pop_file \in {None, PopFile(<<[codgeo |-> K1, p21_pop |-> Num(100)]>>)}
    /\ geo_data = None
    /\ water_data = None
    /\ rent_data = None
    /\ pop_data = None
    /\ merged_data = None

NextOrder ==
    \/ load_water_data
    \/ clean_water_data
    \/ load_geo_data
    \/ load_rent_data
    \/ load_population_data
    \/ merge_data

SpecOrder == InitOrder /\ [][NextOrder]_vars

\* ------------------------------------------------------------------ durable store
\* mysql_database.py: the main script on a server without the database.
Dependent == {"water_data", "rent_data", "merged_data"}

\* create_schema: the four tables, the dependent ones with their foreign key to commune
create_schema ==
    /\ Callable("create_schema")
    /\ db' = [db EXCEPT
                 !.tables = @ \cup {"commune"} \cup Dependent,
                 !.fk = @ \cup (Dependent \ db.tables),
                 !.water_data = IF "water_data" \in db.tables THEN @
                                ELSE DataFrame({"inseecommune", "plvconformitebacterio",
                                                "plvconformitechimique", "bacterio_conformity",
                                                "chemical_conformity"}, <<>>),
                 !.rent_data = IF "rent_data" \in db.tables THEN @
                               ELSE DataFrame({"insee_c", "loypredm2", "mean_loypredm2"}, <<>>),
                 !.merged_data = IF "merged_data" \in db.tables THEN @
                                 ELSE DataFrame({"insee_commune", "bacterio_conformity",
                                                 "chemical_conformity", "mean_loypredm2"},
                                                <<>>)]
    /\ Outcome("create_schema", "")
    /\ UNCHANGED <<norm_vars, input_vars, analysis_data, geo_data, water_data, rent_data,
                   pop_data, merged_data>>

\* the codes of key column c of a table, normalised
Codes(df, c) == {normalize(CellId(df.rows[i][c])) : i \in 1..Len(df.rows)}

\* a plausible slip: the registry is filled from the water files alone
codgeo_water_only(water, rent) == Codes(water, "inseecommune")

\* all_codgeos of the main script: the codes of the water files and of the rent files
all_codgeos(water, rent) == Codes(water, "inseecommune") \cup Codes(rent, "INSEE_C")

\* an INSERT of code k into table t is refused, and with which error: the foreign key
\* of a dependent table that still has it, the CHAR(5) key column of the tables as
\* create_schema made them, the primary key of commune
InsertError(store, t, k) ==
    IF t \in Dependent /\ t \in store.fk /\ k \notin store.commune THEN "IntegrityError"
    ELSE IF t \in {"commune"} \cup store.fk /\ Len(k) > Width THEN "DataError"
    ELSE IF t = "commune" /\ k \in store.commune THEN "IntegrityError"
    ELSE ""

\* the main script reads every file and collects the codes, then populate_commune_stub
\* appends them to commune in one INSERT
PopulateError ==
    IF "inseecommune" \notin concat(water_files).cols THEN "KeyError"
    ELSE IF "INSEE_C" \notin concat(rent_files).cols THEN "KeyError"
    ELSE LET ks == all_codgeos(concat(water_files), concat(rent_files))
         IN  IF \E k \in ks : InsertError(db, "commune", k) = "DataError" THEN "DataError"
             ELSE IF \E k \in ks : InsertError(db, "commune", k) # "" THEN "IntegrityError"
             ELSE ""

populate_commune_stub ==
    /\ Callable("populate_commune_stub")
    /\ db' = IF PopulateError # "" THEN db
             ELSE [db EXCEPT
                      !.commune = @ \cup all_codgeos(concat(water_files), concat(rent_files)),
                      !.written = @ \cup {"commune"}]
    /\ Outcome("populate_commune_stub", PopulateError)
    /\ UNCHANGED <<norm_vars, input_vars, analysis_data, geo_data, water_data, rent_data,
                   pop_data, merged_data>>

\* to_sql(t, if_exists="replace"): the table is dropped and created again from the
\* frame, without the constraints of create_schema, and filled with its rows
Replace(store, t, frame) ==
    [store EXCEPT !.tables = @ \cup {t}, !.fk = @ \ {t}, !.written = @ \cup {t},
                  ![t] = frame]

\* rent_avg of load_rent_data
rent_avg(files) ==
    Rename(Rename(groupby_mean(NormalizeColumn(concat(files), "INSEE_C"),
                               "INSEE_C", {"loypredm2"}),
                  "INSEE_C", "insee_c"),
           "loypredm2", "mean_loypredm2")

mysql_load_rent_data ==
    /\ Callable("mysql_load_rent_data")
    /\ db' = IF RentMeanError(concat(rent_files)) # "" THEN db
             ELSE Replace(db, "rent_data", rent_avg(rent_files))
    /\ Outcome("mysql_load_rent_data", RentMeanError(concat(rent_files)))
    /\ UNCHANGED <<norm_vars, input_vars, analysis_data, geo_data, water_data, rent_data,
                   pop_data, merged_data>>

LoadWaterError ==
    IF {"inseecommune", "plvconformitebacterio", "plvconformitechimique"}
           \subseteq concat(water_files).cols THEN ""
    ELSE "KeyError"

mysql_load_water_data ==
    /\ Callable("mysql_load_water_data")
    /\ db' = IF LoadWaterError # "" THEN db
             ELSE Replace(db, "water_data", clean_water(concat(water_files)))
    /\ Outcome("mysql_load_water_data", LoadWaterError)
    /\ UNCHANGED <<norm_vars, input_vars, analysis_data, geo_data, water_data, rent_data,
                   pop_data, merged_data>>

RECURSIVE Pow10(_)
Pow10(d) == IF d = 0 THEN 1 ELSE 10 * Pow10(d - 1)

\* a value stored with d decimals (half rounds up), a missing value NULL
Round(v, d) ==
    IF isna(v) THEN NaN
    ELSE Frac((2 * v.num * Pow10(d) + v.den) \div (2 * v.den), Pow10(d))

\* AVG of an integer column has 4 decimals; the DECIMAL(4,3) column keeps 3
Decimal43(v) == Round(Round(v, 4), 3)

\* INSERT INTO merged_data ... SELECT inseecommune, AVG(...), AVG(...) FROM water_data
\* GROUP BY inseecommune, then UPDATE merged_data m JOIN rent_data r ON
\* m.insee_commune = r.insee_c SET m.mean_loypredm2 = r.mean_loypredm2
AggregatedRows(store) ==
    LET avg == water_agg(store.water_data)
        Rent(k) == LET Match(r) == r["insee_c"] = k
                   IN  SelectSeq(store.rent_data.rows, Match)
    IN  [i \in 1..Len(avg.rows) |->
            [insee_commune |-> avg.rows[i]["inseecommune"],
             bacterio_conformity |-> Decimal43(avg.rows[i]["bacterio_conformity"]),
             chemical_conformity |-> Decimal43(avg.rows[i]["chemical_conformity"]),
             mean_loypredm2 |->
                 IF Rent(avg.rows[i]["inseecommune"]) = <<>> THEN NaN
                 ELSE Round(Rent(avg.rows[i]["inseecommune"])[1]["mean_loypredm2"], 2)]]

\* a plausible slip: the DELETE is left out, the rows of earlier calls stay
MergedRowsAppended(store) == store.merged_data.rows \o AggregatedRows(store)

\* DELETE FROM merged_data, then the INSERT and the UPDATE: the rows of this call alone
MergedRows(store) == AggregatedRows(store)

\* the statements run in one transaction (engine.begin): all of them or none
MergeError ==
    IF ~(Dependent \subseteq db.tables) THEN "ProgrammingError"
    ELSE LET ks == Codes(db.water_data, "inseecommune")
         IN  IF \E k \in ks : InsertError(db, "merged_data", k) = "DataError"
             THEN "DataError"
             ELSE IF \E k \in ks : InsertError(db, "merged_data", k) # ""
                  THEN "IntegrityError"
             ELSE ""

preprocess_and_merge_data ==
    /\ Callable("preprocess_and_merge_data")
    /\ db' = IF MergeError # "" THEN db
             ELSE [db EXCEPT !.merged_data = DataFrame(@.cols, MergedRows(db)),
                             !.written = @ \cup {"merged_data"}]
    /\ Outcome("preprocess_and_merge_data", MergeError)
    /\ UNCHANGED <<norm_vars, input_vars, analysis_data, geo_data, water_data, rent_data,
                   pop_data, merged_data>>

\* the files of a run: one of the two sources varies, the other is the scenario's
InitStore ==
    /\ NormIdle
    /\ variant = "mysql"
    /\ script = Script(variant)
    /\ pc = 0
    /\ error = NoError
    /\ analysis_data = None
    /\ db = NoStore
    /\ \E varies \in {"water", "rent"} :
        /\ water_files \in IF varies = "water" THEN WaterInputs
                           ELSE {<<read_csv(ScenarioWater, "inseecommune")>>}
        /\ rent_files \in IF varies = "rent" THEN RentInputs
                          ELSE {<<read_csv(ScenarioRent, "INSEE_C")>>}
    /\ geojson = ScenarioGeo
    /\ pop_file = None
    /\ geo_data = None
    /\ water_data = None
    /\ rent_data = None
    /\ pop_data = None
    /\ merged_data = None

NextStore ==
    \/ create_schema
    \/ populate_commune_stub
    \/ mysql_load_rent_data
    \/ mysql_load_water_data
    \/ preprocess_and_merge_data

SpecStore == InitStore /\ [][NextStore]_vars

\* ------------------------------------------------------------------ repeated calls
\* mysql_database.py: after the main script the caller goes on calling the loaders and
\* preprocess_and_merge_data, with the same file lists or with other ones.
MaxRepeat == 3

RepeatCalls == {"other_files", "mysql_load_rent_data", "mysql_load_water_data",
                "preprocess_and_merge_data"}

\* the sequences of at most n further calls
Repeats(n) == UNION {[1..k -> RepeatCalls] : k \in 0..n}

\* other water files: one commune of the registry only, more records of the same
\* communes, a commune the registry does not hold
OtherWater ==
    {WaterFile(<<[inseecommune |-> K1, plvconformitebacterio |-> <<"N">>,
                  plvconformitechimique |-> <<"C">>]>>),
     WaterFile(<<[inseecommune |-> K2, plvconformitebacterio |-> <<"C">>,
                  plvconformitechimique |-> <<"C">>],
                 [inseecommune |-> K2, plvconformitebacterio |-> NA,
                  plvconformitechimique |-> <<"N">>],
                 [inseecommune |-> K1, plvconformitebacterio |-> <<"C">>,
                  plvconformitechimique |-> <<"N">>]>>),
     WaterFile(<<[inseecommune |-> K2A004, plvconformitebacterio |-> <<"C">>,
                  plvconformitechimique |-> <<"C">>]>>)}

\* other rent files: a commune without any rent value, another commune, no row
OtherRent ==
    {RentFile(<<[INSEE_C |-> K00001, loypredm2 |-> NaN]>>),
     RentFile(<<[INSEE_C |-> K00002, loypredm2 |-> Num(10)],
                [INSEE_C |-> K00001, loypredm2 |-> NaN]>>),
     RentFile(<<>>)}

\* the caller passes other file lists to the calls that follow
other_files ==
    /\ Callable("other_files")
    /\ \E w \in OtherWater \cup {ScenarioWater}, r \in OtherRent \cup {ScenarioRent} :
        /\ water_files' = <<read_csv(w, "inseecommune")>>
        /\ rent_files' = <<read_csv(r, "INSEE_C")>>
    /\ Outcome("other_files", "")
    /\ UNCHANGED <<norm_vars, variant, script, geojson, pop_file, db, analysis_data,
                   geo_data, water_data, rent_data, pop_data, merged_data>>

InitRepeat ==
    /\ NormIdle
    /\ variant = "mysql"
    /\ script \in {Script(variant) \o more : more \in Repeats(MaxRepeat)}
    /\ pc = 0
    /\ error = NoError
    /\ analysis_data = None
    /\ db = NoStore
    /\ water_files = <<read_csv(ScenarioWater, "inseecommune")>>
    /\ rent_files \in {<<read_csv(r, "INSEE_C")>> : r \in OtherRent \cup {ScenarioRent}}
    /\ geojson = ScenarioGeo
    /\ pop_file = None
    /\ geo_data = None
    /\ water_data = None
    /\ rent_data = None
    /\ pop_data = None
    /\ merged_data = None

NextRepeat ==
    \/ create_schema
    \/ populate_commune_stub
    \/ mysql_load_rent_data
    \/ mysql_load_water_data
    \/ preprocess_and_merge_data
    \/ other_files

SpecRepeat == InitRepeat /\ [][NextRepeat]_vars

\* ------------------------------------------------------------------ normaliser
Fragments == {<<"0">>, <<"1">>, <<"-">>, <<"A">>, <<"2", "3">>}

RECURSIVE StrsUpTo(_)
\* the strings made of at most k fragments
StrsUpTo(k) == IF k = 0 THEN {<<>>}
               ELSE LET S == StrsUpTo(k - 1)
                    IN  S \cup {s \o f : s \in S, f \in Fragments}

SpecExamples == {IntId(1), StrId(<<"7", "5", "0">>), StrId(<<"1", "2", "3", "4", "5">>),
                 StrId(<<"1", "2", "3", "4", "5", "6">>)}

RawIds == {IntId(n) : n \in -MaxInt..MaxInt}
          \cup {IntId(n * 12345) : n \in -MaxInt..MaxInt}
          \cup {FloatId(n, f) : n \in 0..MaxInt, f \in {0, 5}}
          \cup {StrId(s) : s \in StrsUpTo(MaxStrLen) \ {<<>>}}
          \cup {NanId}
          \cup SpecExamples

PipelineIdle ==
    /\ variant = "none"
    /\ script = <<>>
    /\ pc = 0
    /\ error = NoError
    /\ analysis_data = None
    /\ db = NoStore
    /\ water_files = <<>>
    /\ geojson = None
    /\ rent_files = <<>>
    /\ pop_file = None
    /\ geo_data = None
    /\ water_data = None
    /\ rent_data = None
    /\ pop_data = None
    /\ merged_data = None

InitNorm ==
    /\ raw \in RawIds
    /\ key = raw
    /\ norm_calls = 0
    /\ PipelineIdle

\* one pass of a key column through .astype(str).str.zfill(5)
Normalize ==
    /\ norm_calls < MaxNormCalls
    /\ key' = StrId(normalize(key))
    /\ norm_calls' = norm_calls + 1
    /\ UNCHANGED <<raw, input_vars, db_vars, pc, error, analysis_data, geo_data, water_data, rent_data, pop_data, merged_data>>

NextNorm == Normalize

SpecNorm == InitNorm /\ [][NextNorm]_vars

\* ------------------------------------------------------------------ claims
IsSigned(s) == Len(s) > 0 /\ s[1] \in {"+", "-"}

\* r is s with k "0" characters inserted after its first p characters
PaddedAfter(s, r, p) ==
    LET k == Len(r) - Len(s)
    IN  /\ k >= 0
        /\ \A i \in 1..p : r[i] = s[i]
        /\ \A i \in (p + 1)..(p + k) : r[i] = "0"
        /\ \A i \in (p + 1)..Len(s) : r[i + k] = s[i]

PaddedLen(s) == IF Len(s) < Width THEN Width ELSE Len(s)

\* C3 as stated: the normalised key is str(raw) left-padded with "0" to length 5,
\* nothing removed or reordered, and str(raw) itself when it has 5 or more characters.
C3_LeftPadded ==
    norm_calls = 1 =>
        LET s == astype_str(raw)
        IN  /\ key.kind = "str"
            /\ Len(key.s) = PaddedLen(s)
            /\ PaddedAfter(s, key.s, 0)

\* C3 amended: as C3, except that the "0" characters go after a leading "+" or "-"
\* of str(raw); the four examples of the specification hold.
C3_PaddedSignFirst ==
    norm_calls = 1 =>
        LET s == astype_str(raw)
        IN  /\ key.kind = "str"
            /\ Len(key.s) = PaddedLen(s)
            /\ PaddedAfter(s, key.s, IF IsSigned(s) THEN 1 ELSE 0)
            /\ (Len(s) >= Width => key.s = s)
            /\ (raw = IntId(1) => key.s = <<"0", "0", "0", "0", "1">>)
            /\ (raw = StrId(<<"7", "5", "0">>) => key.s = <<"0", "0", "7", "5", "0">>)
            /\ (raw = StrId(<<"1", "2", "3", "4", "5">>) => key.s = <<"1", "2", "3", "4", "5">>)
            /\ (raw = StrId(<<"1", "2", "3", "4", "5", "6">>)
                    => key.s = <<"1", "2", "3", "4", "5", "6">>)

C3_Witness ==
    /\ norm_calls = 1
    /\ raw = IntId(-1)
    /\ key.s = <<"-", "0", "0", "0", "1">>

\* C4: normalising an already-normalised key leaves it unchanged.
C4_Idempotent == [][norm_calls >= 1 => key' = key]_vars

C4_Witness ==
    /\ norm_calls = 2
    /\ Len(astype_str(raw)) < Width
    /\ key.s # astype_str(raw)


\* ------------------------------------------------------------------ pipeline claims
\* the call of merge_data of the classes that join water, rent and population
MergeDataStep == Callable("merge_data") /\ pc' = pc + 1

\* the merged table of a finished run
Merged == IF variant \in {"eau", "am"} THEN merged_data ELSE geo_data

Pad(k) == normalize(CellId(k))

RawWater == concat(water_files).rows

RawRent == concat(rent_files).rows

\* how many rows of table t carry geometry g
Copies(t, g) == Cardinality({j \in 1..Len(t.rows) : t.rows[j]["geometry"] = g})

SameRowsOnce(a, b) ==
    /\ Len(b.rows) = Len(a.rows)
    /\ \A i \in 1..Len(a.rows) : Copies(b, a.rows[i]["geometry"]) = 1

\* C1: in final.py merge_data the table keeps the row count of the geometry table after
\* each of the left joins (water, rent, population), every geometry record once.
C1_RowCountPreserved ==
    [][(variant = "final" /\ MergeDataStep) =>
          /\ SameRowsOnce(geo_data, AfterWater(geo_data))
          /\ SameRowsOnce(geo_data, AfterRent(AfterWater(geo_data)))
          /\ SameRowsOnce(geo_data, geo_data')]_vars

\* C2: in every variant the keys of both sides of every join were zero-padded before
\* the comparison: a geometry row and a source record of the same commune, however
\* either is padded, are matched.
C2_BothSidesNormalized ==
    Done =>
        \A i \in 1..Len(Merged.rows) :
            LET r == Merged.rows[i]
            IN  /\ UsesWater(variant) =>
                    \A j \in 1..Len(RawWater) :
                        Pad(RawWater[j]["inseecommune"]) = Pad(r["codgeo"])
                            => r["inseecommune"] # NA
                /\ UsesRent(variant) =>
                    \A j \in 1..Len(RawRent) :
                        Pad(RawRent[j]["INSEE_C"]) = Pad(r["codgeo"])
                            => r["INSEE_C"] # NA
                /\ (UsesPop(variant) /\ pop_file.df) =>
                    \A j \in 1..Len(pop_file.rows) :
                        Pad(pop_file.rows[j]["codgeo"]) = Pad(r["codgeo"])
                            => ~isna(r["p21_pop"])

\* the variants that encode the conformity codes as 0 / 1
Encoding == {"final", "population_merge", "eau_merge"}

Cleaned == variant \in Encoding /\ HasRun("clean_water_data")

\* C5: after clean_water_data, bacterio_conformity and chemical_conformity are 1 exactly
\* for the records whose code is "C" and 0 for every other record, a missing code included.
C5_EncodesExactlyC ==
    Cleaned =>
        /\ Len(water_data.rows) = Len(RawWater)
        /\ \A i \in 1..Len(RawWater) :
            LET r == water_data.rows[i]
            IN  /\ r["bacterio_conformity"] \in {Num(0), Num(1)}
                /\ r["chemical_conformity"] \in {Num(0), Num(1)}
                /\ r["bacterio_conformity"] = Num(1)
                       <=> RawWater[i]["plvconformitebacterio"] = <<"C">>
                /\ r["chemical_conformity"] = Num(1)
                       <=> RawWater[i]["plvconformitechimique"] = <<"C">>

C5_Witness ==
    /\ Cleaned
    /\ \E i \in 1..Len(water_data.rows) :
        /\ water_data.rows[i]["plvconformitebacterio"] = NA
        /\ water_data.rows[i]["bacterio_conformity"] = Num(0)
        /\ water_data.rows[i]["chemical_conformity"] = Num(1)

\* the raw water records of commune code k
WaterOf(k) == {j \in 1..Len(RawWater) : Pad(RawWater[j]["inseecommune"]) = k}

\* the share of the records of commune k whose code in column c is "C"
Rate(k, c) ==
    Frac(Cardinality({j \in WaterOf(k) : RawWater[j][c] = <<"C">>}), Cardinality(WaterOf(k)))

\* C6: in eau.py, eau_merge.py, population_merge.py and final.py the merged
\* bacterio_conformity and chemical_conformity of a commune are the number of its water
\* records with code "C" over the number of its water records.
C6_ConformityRate ==
    (Done /\ UsesWater(variant)) =>
        \A i \in 1..Len(Merged.rows) :
            LET r == Merged.rows[i]
            IN  r["inseecommune"] # NA =>
                    /\ r["bacterio_conformity"] = Rate(r["inseecommune"], "plvconformitebacterio")
                    /\ r["chemical_conformity"] = Rate(r["inseecommune"], "plvconformitechimique")

\* the rent records the aggregation groups, and the table it yields
RentAggregated ==
    \/ HasRun("load_rent_data")
    \/ RentGiven(variant) /\ HasRun("merge_data")
    \/ HasRun("preprocess_data")

RentRecords == IF variant = "final" THEN RawRent ELSE rent_data.rows

RentAggregate == IF variant = "final" THEN rent_data ELSE rent_agg(rent_data)

RentColumn == IF variant = "final" THEN "mean_loypredm2" ELSE "loypredm2"

\* the records grouped under key k, and those of them with a value
Group(k) == {j \in 1..Len(RentRecords) : RentRecords[j]["INSEE_C"] = k}

Present(k) == {j \in Group(k) : ~isna(RentRecords[j]["loypredm2"])}

RECURSIVE Total(_)
\* the sum of the (whole) values of the records J
Total(J) == IF J = {} THEN 0
            ELSE LET j == CHOOSE x \in J : TRUE
                 IN  RentRecords[j]["loypredm2"].num + Total(J \ {j})

\* v is the mean of the present values of group k, missing when there is none
IsGroupMean(v, k) ==
    IF Present(k) = {} THEN isna(v) /\ v # Num(0)
    ELSE ~isna(v) /\ v.num * Cardinality(Present(k)) = Total(Present(k)) * v.den

OnePerCode(t, c) ==
    \A i, j \in 1..Len(t.rows) : Pad(t.rows[i][c]) = Pad(t.rows[j][c]) => i = j

C9_JoinOrder ==
    [][MergeDataStep =>
          /\ AfterRent(AfterWater(geo_data)) = AfterWater(AfterRent(geo_data))
          /\ geo_data' = AfterPop(AfterWater(AfterRent(geo_data)))]_vars

C9_Witness ==
    /\ variant \in {"final", "eau_merge"}
    /\ Done
    /\ \E i, j \in 1..Len(geo_data.rows) :
        /\ ~isna(geo_data.rows[i]["bacterio_conformity"])
        /\ geo_data.rows[i]["INSEE_C"] # NA
        /\ geo_data.rows[j]["INSEE_C"] = NA

Project(r, cols) == [c \in cols |-> r[c]]

\* table b has the columns of a, and its rows, cut to those columns, are the rows of a
Keeps(a, b) ==
    /\ a.cols \subseteq b.cols
    /\ {Project(b.rows[j], a.cols) : j \in 1..Len(b.rows)} = {a.rows[i] : i \in 1..Len(a.rows)}

\* C10: in merge_data the rent join leaves the geometry, the key and the water values
\* of every row as the water join left them, and the population join leaves those and
\* the rent values as the rent join left them.
C10_LaterJoinsKeep ==
    [][MergeDataStep =>
          /\ Keeps(AfterWater(geo_data), AfterRent(AfterWater(geo_data)))
          /\ Keeps(AfterRent(AfterWater(geo_data)), geo_data')]_vars

C10_Witness ==
    /\ variant \in {"final", "population_merge"}
    /\ Done
    /\ pop_data.df
    /\ "p21_pop" \in geo_data.cols
    /\ \E i, j \in 1..Len(geo_data.rows) :
        /\ ~isna(geo_data.rows[i]["bacterio_conformity"])
        /\ geo_data.rows[i]["INSEE_C"] # NA
        /\ geo_data.rows[j]["INSEE_C"] = NA

\* the correlation analysis has run
Analysed == HasRun("plot_correlation_heatmap") \/ HasRun("analyze_correlation")

\* the indicator columns of the merged table of the variant
Indicators == {"bacterio_conformity", "chemical_conformity", RentColumn}

\* the merged rows that have a value in every column of sel
CompleteRows(sel) ==
    {i \in 1..Len(geo_data.rows) : \A c \in sel : ~isna(geo_data.rows[i][c])}

\* C12: the correlation matrix is computed from exactly the merged rows that have a
\* value in every selected column, each such row once and no other row, so a row that
\* lacks any selected value enters no coefficient; the selected columns are the three
\* indicators, and p21_pop with them exactly when a population sheet was loaded and joined.
C12_CompleteCases ==
    Analysed =>
        LET sel == analysis_data.cols
        IN  /\ Indicators \subseteq sel
            /\ sel \subseteq Indicators \cup {"p21_pop"}
            /\ "p21_pop" \in sel <=>
                   (pop_file.df /\ HasRun("load_population_data") /\ HasRun("merge_data")
                    /\ variant # "eau_merge")
            /\ Len(analysis_data.rows) = Cardinality(CompleteRows(sel))
            /\ \A i \in CompleteRows(sel) :
                  Cardinality({j \in 1..Len(analysis_data.rows) :
                                   analysis_data.rows[j] = Project(geo_data.rows[i], sel)})
                  = Cardinality({k \in CompleteRows(sel) :
                                   Project(geo_data.rows[k], sel) = Project(geo_data.rows[i], sel)})

C12_Witness ==
    /\ Analysed
    /\ "p21_pop" \in analysis_data.cols
    /\ Len(geo_data.rows) = 2
    /\ analysis_data.rows = <<>>
    /\ \E i \in 1..Len(geo_data.rows) :
        /\ ~isna(geo_data.rows[i]["bacterio_conformity"])
        /\ ~isna(geo_data.rows[i]["p21_pop"])
        /\ isna(geo_data.rows[i][RentColumn])

\* the sources of the end-to-end scenario of the specification, as final.py reads them
Scenario ==
    /\ variant = "final"
    /\ geojson = ScenarioGeo
    /\ water_files = <<read_csv(ScenarioWater, "inseecommune")>>
    /\ rent_files = <<read_csv(ScenarioRent, "INSEE_C")>>
    /\ pop_file = None

\* the one row of the merged table for commune k has bacterio_conformity b and
\* mean_loypredm2 m
MergedRow(k, b, m) ==
    /\ Cardinality({i \in 1..Len(geo_data.rows) : geo_data.rows[i]["codgeo"] = k}) = 1
    /\ \A i \in 1..Len(geo_data.rows) :
          geo_data.rows[i]["codgeo"] = k =>
              /\ geo_data.rows[i]["bacterio_conformity"] = b
              /\ geo_data.rows[i]["mean_loypredm2"] = m
              /\ b = NaN => geo_data.rows[i]["chemical_conformity"] = NaN

\* C11: on the sources of the end-to-end scenario (geometry 00001, 00002, 00003; water
\* records of key 1 with code C and of key 2 with code N; rent records of 00001 with
\* 10.0 and 12.0) merge_data returns, and the merged table has bacterio_conformity 1 and
\* mean_loypredm2 11 for 00001, 0 and missing for 00002, every indicator missing for 00003.
C11_EndToEnd ==
    (Scenario /\ (HasRun("merge_data") \/ error # NoError)) =>
        /\ error = NoError
        /\ Len(geo_data.rows) = 3
        /\ MergedRow(K00001, Num(1), Num(11))
        /\ MergedRow(K00002, Num(0), NaN)
        /\ MergedRow(K00003, NaN, NaN)

\* ------------------------------------------------------------------ durable-store claims
KeyColumn(t) ==
    CASE t = "water_data" -> "inseecommune"
      [] t = "rent_data" -> "insee_c"
      [] OTHER -> "insee_commune"

\* the commune codes held in dependent table t
StoreKeys(store, t) == {store[t].rows[i][KeyColumn(t)] : i \in 1..Len(store[t].rows)}

\* C13: in the run of the main script of mysql_database.py every code held in
\* water_data, rent_data or merged_data is in the commune registry, in every state; and
\* a step that loads one of these tables finds its codes in the registry already.
C13_RegistryFirst ==
    [][\A t \in Dependent :
          /\ StoreKeys(db', t) \subseteq db'.commune
          /\ db'[t] # db[t] => StoreKeys(db', t) \subseteq db.commune]_vars

C13_Witness ==
    /\ variant = "mysql"
    /\ Done
    /\ StoreKeys(db, "rent_data") \ StoreKeys(db, "water_data") # {}
    /\ StoreKeys(db, "water_data") \ StoreKeys(db, "rent_data") # {}
    /\ StoreKeys(db, "merged_data") = StoreKeys(db, "water_data")

\* C14: from create_schema on, at every point of the run, the store refuses the insert
\* of a row for a code absent from the registry, in each of the three dependent tables.
C14_ForeignKeyEnforced ==
    HasRun("create_schema") =>
        \A t \in Dependent :
            \A k \in {K00001, K00002, K00003, K2A004} \ db.commune :
                InsertError(db, t, k) = "IntegrityError"

\* final.py on the files of the run: the geometry table as load_geo_data leaves it, the
\* rent table of load_rent_data, and the table merge_data builds from them
FinalGeo == NormalizeColumn(geojson, "codgeo")

FinalRent == rent_mean(rent_files)

FinalMerged ==
    merge_rent(merge_water(FinalGeo, water_agg(clean_water(concat(water_files)))), FinalRent)

\* row r of the store's merged_data and row g of final.py's merged table agree
SameIndicators(r, g) ==
    /\ r["insee_commune"] = g["codgeo"]
    /\ r["bacterio_conformity"] = g["bacterio_conformity"]
    /\ r["chemical_conformity"] = g["chemical_conformity"]
    /\ r["mean_loypredm2"] = g["mean_loypredm2"]

\* C15: on the same files, merged_data after preprocess_and_merge_data and final.py's
\* geo_data after merge_data hold the same commune codes, one row each, with the same
\* bacterio_conformity, chemical_conformity and mean_loypredm2, missing values included.
C15_SameAsInMemory ==
    (variant = "mysql" /\ Done) =>
        /\ ~merge_raises(FinalGeo, FinalRent, "codgeo", "INSEE_C")
        /\ Len(db.merged_data.rows) = Len(FinalMerged.rows)
        /\ \A i \in 1..Len(FinalMerged.rows) :
              Cardinality({j \in 1..Len(db.merged_data.rows) :
                               SameIndicators(db.merged_data.rows[j], FinalMerged.rows[i])}) = 1

\* C16: when a step of the run fails, the store holds either no row at all, as before
\* the run, or every table filled: never some of the tables.
C16_AllOrNothing ==
    error # NoError => db.written \in {{}, {"commune"} \cup Dependent}

\* ------------------------------------------------------------------ source errors
\* the required columns of each source of final.py, its loading calls, and its table
Required(src) ==
    CASE src = "water" -> {"inseecommune", "plvconformitebacterio", "plvconformitechimique"}
      [] src = "rent" -> {"INSEE_C", "loypredm2"}
      [] OTHER -> {"codgeo"}

Loaders(src) ==
    CASE src = "water" -> {"load_water_data", "clean_water_data"}
      [] src = "rent" -> {"load_rent_data"}
      [] src = "geo" -> {"load_geo_data"}
      [] OTHER -> {"load_population_data"}

SourceColumns(src) ==
    CASE src = "water" -> concat(water_files).cols
      [] src = "rent" -> concat(rent_files).cols
      [] src = "geo" -> geojson.cols
      [] OTHER -> IF pop_file.df THEN pop_file.cols ELSE Required(src)

Table(src) ==
    CASE src = "water" -> water_data
      [] src = "rent" -> rent_data
      [] src = "geo" -> geo_data
      [] OTHER -> pop_data

\* the loading of the source is over: every call of it has returned, or one has raised
Loaded(src) ==
    \/ \A h \in Loaders(src) : HasRun(h)
    \/ error.call \in Loaders(src)

\* C17: in final.py, when a source lacks one of its required columns, its loading ends
\* with an exception and the processor holds no table for that source, neither a
\* partially loaded nor a partially cleaned one.
C17_NoPartialTable ==
    variant = "final" =>
        \A src \in {"water", "rent", "geo", "population"} :
            (Loaded(src) /\ ~(Required(src) \subseteq SourceColumns(src))) =>
                /\ error.call \in Loaders(src)
                /\ Table(src) = None

\* the rent files have the two columns, and a loypredm2 cell that spells no number
HasMalformed ==
    /\ {"INSEE_C", "loypredm2"} \subseteq concat(rent_files).cols
    /\ IsObject(concat(rent_files), "loypredm2")

\* the rent files with every malformed cell taken as missing
Coerced ==
    [f \in 1..Len(rent_files) |->
        DataFrame(rent_files[f].cols,
                  [i \in 1..Len(rent_files[f].rows) |->
                      [rent_files[f].rows[i] EXCEPT
                          !["loypredm2"] = IF @ = Malformed THEN NaN ELSE @]])]

\* the rent loading and aggregation of final.py (load_rent_data) and am.py
\* (preprocess_data) is over
RentLoaded ==
    IF variant = "am" THEN HasRun("preprocess_data") \/ error.call = "preprocess_data"
    ELSE Loaded("rent")

\* C18: a rent record with a malformed loypredm2 cell makes neither the loader nor the
\* aggregation fail: the cell counts as missing, the record's other cells are kept, and
\* the mean of its commune is taken over the remaining present values.
C18_MalformedIsMissing ==
    (variant \in {"final", "am"} /\ HasMalformed /\ RentLoaded) =>
        /\ error = NoError
        /\ variant = "final" => rent_data = rent_mean(Coerced)
        /\ variant = "am" =>
              /\ rent_data = NormalizeColumn(concat(Coerced), "INSEE_C")
              /\ merged_data = merge(geo_data, rent_agg(rent_data), "codgeo", "INSEE_C")

\* ------------------------------------------------------------------ several rent files
\* the key a rent record is grouped under: am.py pads INSEE_C first, final.py does not
GroupKey(cell) == IF variant = "am" THEN Pad(cell) ELSE cell

\* the rows of rent file f under key k that have a value
FilePresent(f, k) ==
    {i \in 1..Len(rent_files[f].rows) :
        /\ GroupKey(rent_files[f].rows[i]["INSEE_C"]) = k
        /\ ~isna(rent_files[f].rows[i]["loypredm2"])}

RECURSIVE FileTotal(_, _)
\* the sum of the (whole) values of rows I of rent file f
FileTotal(f, I) ==
    IF I = {} THEN 0
    ELSE LET i == CHOOSE x \in I : TRUE
         IN  rent_files[f].rows[i]["loypredm2"].num + FileTotal(f, I \ {i})

RECURSIVE AllFilesTotal(_, _)
\* the sum of the present values of key k in the files 1..n
AllFilesTotal(n, k) ==
    IF n = 0 THEN 0 ELSE FileTotal(n, FilePresent(n, k)) + AllFilesTotal(n - 1, k)

RECURSIVE AllFilesCount(_, _)
\* the number of present values of key k in the files 1..n
AllFilesCount(n, k) ==
    IF n = 0 THEN 0 ELSE Cardinality(FilePresent(n, k)) + AllFilesCount(n - 1, k)

Prepared ==
    /\ HasRun("load_water_data")
    /\ HasRun("clean_water_data")
    /\ HasRun("load_geo_data")
    /\ HasRun("load_rent_data")

\* C20: on a fresh final.py DataProcessor the first call of merge_data returns without
\* an exception exactly when load_water_data, then clean_water_data, and load_geo_data
\* and load_rent_data have returned before it; load_population_data is optional, and
\* without it, or without a population file, merge_data adds no p21_pop column.
C20_MergePrerequisites ==
    [][(variant = "final" /\ Callable("merge_data")) =>
          /\ error' = NoError <=> Prepared
          /\ error' = NoError =>
                ("p21_pop" \in geo_data'.cols
                     <=> (HasRun("load_population_data") /\ pop_file.df))]_vars

\* ------------------------------------------------------------------ C21
\* the commune codes of water_data
WaterCodes(store) ==
    {store.water_data.rows[i]["inseecommune"] : i \in 1..Len(store.water_data.rows)}

\* merged_data holds one row for every commune code of water_data and no other row
OneRowPerCommune(store) ==
    /\ Len(store.merged_data.rows) = Cardinality(WaterCodes(store))
    /\ {store.merged_data.rows[i]["insee_commune"] :
            i \in 1..Len(store.merged_data.rows)} = WaterCodes(store)

\* the rows of rent_data with commune code k
RentRowsOf(store, k) ==
    {i \in 1..Len(store.rent_data.rows) : store.rent_data.rows[i]["insee_c"] = k}

\* a row's mean_loypredm2 is set exactly when rent_data has a row with its code
RentSetWhenPresent(store) ==
    \A i \in 1..Len(store.merged_data.rows) :
        ~isna(store.merged_data.rows[i]["mean_loypredm2"])
            <=> RentRowsOf(store, store.merged_data.rows[i]["insee_commune"]) # {}

\* a row's mean_loypredm2 is set exactly when rent_data has a row with its code whose
\* mean_loypredm2 is itself set
RentSetWhenKnown(store) ==
    \A i \in 1..Len(store.merged_data.rows) :
        ~isna(store.merged_data.rows[i]["mean_loypredm2"])
            <=> \E j \in RentRowsOf(store, store.merged_data.rows[i]["insee_commune"]) :
                    ~isna(store.rent_data.rows[j]["mean_loypredm2"])

\* this step is a call of preprocess_and_merge_data that returns without an exception
MergeReturns == Callable("preprocess_and_merge_data") /\ pc' = pc + 1

\* C21 as stated: after every successful call of preprocess_and_merge_data, the first
\* or a later one, merged_data holds exactly one row per distinct inseecommune of
\* water_data and no other row, and a row's mean_loypredm2 is set exactly when
\* rent_data has a row with that commune code.
C21_RowPerCommune ==
    [][MergeReturns => OneRowPerCommune(db') /\ RentSetWhenPresent(db')]_vars

\* C21 as amended: after every successful call of preprocess_and_merge_data, the first
\* or a later one, merged_data holds exactly one row per distinct inseecommune of
\* water_data and no other row, and a row's mean_loypredm2 is set exactly when
\* rent_data has a row with that commune code whose mean_loypredm2 is set.
C21_RowPerCommuneKnownRent ==
    [][MergeReturns => OneRowPerCommune(db') /\ RentSetWhenKnown(db')]_vars

\* a second successful call has replaced the rows of the first: water_data holds more
\* records than communes, one row has its rent and one has none
C21_Witness ==
    /\ error = NoError
    /\ \E i \in 1..pc : \E j \in (i + 1)..pc :
          script[i] = "preprocess_and_merge_data" /\ script[j] = "preprocess_and_merge_data"
    /\ script[pc] = "preprocess_and_merge_data"
    /\ Len(db.water_data.rows) > Len(db.merged_data.rows)
    /\ \E i \in 1..Len(db.merged_data.rows) : ~isna(db.merged_data.rows[i]["mean_loypredm2"])
    /\ \E i \in 1..Len(db.merged_data.rows) : isna(db.merged_data.rows[i]["mean_loypredm2"])

\* ------------------------------------------------------------------ C22
\* the water records of commune k: the records of the files whose padded code is k
WaterRecordsOf(k) ==
    {j \in 1..Len(RawWater) : Pad(RawWater[j]["inseecommune"]) = k}

\* value v is present and lies between 0 and 1
InUnit(v) == ~isna(v) /\ 0 <= v.num /\ v.num <= v.den

\* row r of an aggregate or merged table carries, for commune k, both conformity values,
\* each present and between 0 and 1, and 0 when every raw code of the commune is missing
ConformityOf(r, k) ==
    /\ InUnit(r["bacterio_conformity"])
    /\ InUnit(r["chemical_conformity"])
    /\ (\A j \in WaterRecordsOf(k) : RawWater[j]["plvconformitebacterio"] = NA)
           => r["bacterio_conformity"] = Num(0)
    /\ (\A j \in WaterRecordsOf(k) : RawWater[j]["plvconformitechimique"] = NA)
           => r["chemical_conformity"] = Num(0)

\* C22: in eau_merge.py, population_merge.py and final.py every commune with at least
\* one water record has, in the aggregate merge_data joins, one row with
\* bacterio_conformity and chemical_conformity present and between 0 and 1, 0 when all
\* its raw codes are missing; in the merged table a geometry row carries these values
\* when its commune has a water record and lacks both columns only when it has none.
C22_ConformityPresent ==
    (variant \in Encoding /\ HasRun("merge_data")) =>
        /\ \A j \in 1..Len(RawWater) :
            LET k == Pad(RawWater[j]["inseecommune"])
                agg == water_agg(water_data)
                at == {i \in 1..Len(agg.rows) : agg.rows[i]["inseecommune"] = k}
            IN  /\ Cardinality(at) = 1
                /\ \A i \in at : ConformityOf(agg.rows[i], k)
        /\ \A i \in 1..Len(geo_data.rows) :
            LET g == geo_data.rows[i]
            IN  IF WaterRecordsOf(g["codgeo"]) # {} THEN ConformityOf(g, g["codgeo"])
                ELSE isna(g["bacterio_conformity"]) /\ isna(g["chemical_conformity"])

\* a merged table with a commune all of whose bacteriological codes are missing (value
\* 0), a commune with a rate strictly between 0 and 1, or a geometry row without any
\* water record next to one with records
C22_Witness ==
    /\ variant \in Encoding
    /\ HasRun("merge_data")
    /\ \E i \in 1..Len(geo_data.rows) :
        LET g == geo_data.rows[i]
        IN  /\ WaterRecordsOf(g["codgeo"]) # {}
            /\ \A j \in WaterRecordsOf(g["codgeo"]) :
                   RawWater[j]["plvconformitebacterio"] = NA
            /\ g["bacterio_conformity"] = Num(0)
            /\ g["chemical_conformity"] = Num(1)
    /\ \E i \in 1..Len(geo_data.rows) :
        /\ WaterRecordsOf(geo_data.rows[i]["codgeo"]) = {}
        /\ isna(geo_data.rows[i]["bacterio_conformity"])

====
